---- MODULE Spec2Model ----
(***************************************************************************)
(* Academic paper scraper: the Flask boundary (submit_topic,               *)
(* get_task_status), the Celery task scrape_and_summarize and the Celery   *)
(* result backend record that the two sides share.                         *)
(*                                                                         *)
(* A job record is the result-backend entry of a task id: a Celery state   *)
(* (PENDING, PROGRESS, FAILURE, SUCCESS) and the value stored with it.     *)
(* An id with no entry reads as PENDING, as in Celery.                     *)
(***************************************************************************)
EXTENDS Integers, Sequences, FiniteSets, TLC

\* ---------------------------------------------------------------- bounds
MaxEntries == 2     \* <li class="arxiv-result"> entries in one listing page
MaxSent == 4        \* sentences in one parsed paper page
MaxRating == 1      \* largest Luhn rating given to a sentence

\* ------------------------------------------------------------ input sets
\* The ids task.id takes, in the order delay() hands them out.  Tasks share
\* nothing but the backend, which is keyed by id, so two of them show every
\* interleaving of one job with another.
TaskIds == {1, 2}
UnknownId == 3                      \* an id no submit ever returns
PollIds == TaskIds \cup {UnknownId}

\* request.form: the "topic" field may be absent; a present topic is a
\* sequence of characters.
NoField == [some |-> FALSE, val |-> <<>>]
Forms == {NoField,
          [some |-> TRUE, val |-> <<>>],
          [some |-> TRUE, val |-> <<" ">>],
          [some |-> TRUE, val |-> <<"m", "l">>]}

\* str(e) of the exceptions the fetches raise (codes of non-empty texts)
Reasons == {1}

\* one listing entry: does it carry the title <p> and the Abstract <a>
EntryShapes == [title : BOOLEAN, link : BOOLEAN]
Listings == UNION {[1..n -> EntryShapes] : n \in 0..MaxEntries}

\* a parsed page: the Luhn rating of each of its sentences, in page order
Documents == UNION {[1..n -> 0..MaxRating] : n \in 0..MaxSent}
\* the pages the per-paper fetch serves in the job model
PageDocs == {d \in Documents : Len(d) \in {0, MaxSent}
                               /\ \A i \in 1..Len(d) : d[i] = (i + 1) % (MaxRating + 1)}

\* ------------------------------------------------------------- variables
VARIABLES
  nextId,     \* ids handed out so far are 1..nextId-1
  queue,      \* broker: task messages sent by delay() and not yet started
  backend,    \* result backend: id -> [state, meta]
  pc,         \* position of the worker running each task
  papers,     \* worker local `papers` (the filtered references)
  idx,        \* how many papers the for loop of line 184 has gone through
  summaries,  \* worker local `summaries`
  exc,        \* worker local `e` of line 210 (0: nothing caught)
  outcome,    \* history: what the page step of each paper met
  response    \* the last HTTP response sent by the Flask boundary

vars == <<nextId, queue, backend, pc, papers, idx, summaries, exc, outcome, response>>

\* ------------------------------------------------------ strings and JSON
\* A summary string is its literal head and the pieces joined after it.
Str(head, body) == [head |-> head, body |-> body]
CouldNot == "Could not generate summary: "
IsEmptyStr(s) == s.head = "" /\ s.body = <<>>
StartsWithCouldNot(s) == s.head = CouldNot

\* json.dumps gives a str; json.loads gives back the dict
json_dumps(payload) == [kind |-> "str", json |-> payload]
json_loads(s) == s.json

\* ------------------------------------------------------------ summarizer
\* mutant: equal ratings are settled in favour of the later sentence
RECURSIVE BestPositions_latest(_, _, _)
BestPositions_latest(doc, count, taken) ==
  IF count = 0 \/ taken = DOMAIN doc THEN taken
  ELSE LET rest == DOMAIN doc \ taken
           best == CHOOSE i \in rest :
                     \A j \in rest : \/ doc[i] > doc[j]
                                     \/ (doc[i] = doc[j] /\ i >= j)
       IN BestPositions_latest(doc, count - 1, taken \cup {best})

\* sumy's _get_best_sentences: stable sort by rating, descending, keep the
\* first `count`, then put them back in document order.
RECURSIVE BestPositions(_, _, _)
BestPositions(doc, count, taken) ==
  IF count = 0 \/ taken = DOMAIN doc THEN taken
  ELSE LET rest == DOMAIN doc \ taken
           best == CHOOSE i \in rest :
                     \A j \in rest : \/ doc[i] > doc[j]
                                     \/ (doc[i] = doc[j] /\ i <= j)
       IN BestPositions(doc, count - 1, taken \cup {best})

RECURSIVE InOrder(_, _, _)
InOrder(set, i, n) ==
  IF i > n THEN <<>>
  ELSE (IF i \in set THEN <<i>> ELSE <<>>) \o InOrder(set, i + 1, n)

SentencesCount == 3

summarizer(doc, count) == InOrder(BestPositions(doc, count, {}), 1, Len(doc))

\* " ".join([str(s) for s in summary_sentences])
summary_text(doc) == Str("", summarizer(doc, SentencesCount))

\* mutant: the handler stores str(e) alone
failure_text_bare(e) == Str("", <<e>>)

\* f"Could not generate summary: {e}"
failure_text(e) == Str(CouldNot, <<e>>)

\* --------------------------------------------------------------- listing
\* mutant: an entry is kept when it has either element
RECURSIVE FilterEntries_either(_, _)
FilterEntries_either(listing, i) ==
  IF i > Len(listing) THEN <<>>
  ELSE (IF listing[i].title \/ listing[i].link
        THEN <<[title |-> i, link |-> i]>> ELSE <<>>)
       \o FilterEntries_either(listing, i + 1)

\* lines 167-176: keep the entries that have both elements, in page order
RECURSIVE FilterEntries(_, _)
FilterEntries(listing, i) ==
  IF i > Len(listing) THEN <<>>
  ELSE (IF listing[i].title /\ listing[i].link
        THEN <<[title |-> i, link |-> i]>> ELSE <<>>)
       \o FilterEntries(listing, i + 1)

\* ------------------------------------------------------- backend records
NoMeta == [kind |-> "none"]
Progress(fmt, n) == [kind |-> "dict", message |-> [fmt |-> fmt, n |-> n]]
ErrorMeta(e) == [kind |-> "dict", error |-> e]
ExcInfo(e) == [kind |-> "exc", exc_type |-> "Exception", exc_message |-> e]

\* mutant: the backend key leaves the task id out
update_state_shared(id, state, meta) ==
  [t \in DOMAIN backend |-> [state |-> state, meta |-> meta]]

update_state(id, state, meta) == [backend EXCEPT ![id] = [state |-> state, meta |-> meta]]

\* mutant: the failure payload keeps an empty papers list
FailurePayload_papers(e) == [status |-> "failure", error |-> e, papers |-> <<>>]

CompletePayload(ps) == [status |-> "complete", papers |-> ps]
FailurePayload(e) == [status |-> "failure", error |-> e]

READY_STATES == {"SUCCESS", "FAILURE"}
EXCEPTION_STATES == {"FAILURE"}

\* AsyncResult reads the record; for an exception state Celery rebuilds the
\* exception from the stored value and raises when the value is not one
MetaDecodes(rec) == rec.state \in EXCEPTION_STATES => rec.meta.kind = "exc"

\* ------------------------------------------------------------------ Init
Init ==
  /\ nextId = 1
  /\ queue = {}
  /\ backend = [i \in PollIds |-> [state |-> "PENDING", meta |-> NoMeta]]
  /\ pc = [i \in TaskIds |-> "idle"]
  /\ papers = [i \in TaskIds |-> <<>>]
  /\ idx = [i \in TaskIds |-> 0]
  /\ summaries = [i \in TaskIds |-> <<>>]
  /\ exc = [i \in TaskIds |-> 0]
  /\ outcome = [i \in TaskIds |-> <<>>]
  /\ response = [op |-> "none", id |-> 0, code |-> 0, body |-> [status |-> "none"]]

\* ---------------------------------------------------------- submit_topic
\* lines 218-224
Falsy(topic) == ~topic.some \/ topic.val = <<>>

SubmitRejected(form) ==
  /\ Falsy(form)
  /\ response' = [op |-> "submit", id |-> 0, code |-> 400,
                  body |-> [status |-> "error"]]
  /\ UNCHANGED <<nextId, queue, backend, pc, papers, idx, summaries, exc, outcome>>

SubmitAccepted(form) ==
  /\ ~Falsy(form)
  /\ nextId \in TaskIds
  /\ queue' = queue \cup {[id |-> nextId, topic |-> form.val]}
  /\ pc' = [pc EXCEPT ![nextId] = "queued"]
  /\ response' = [op |-> "submit", id |-> nextId, code |-> 202,
                  body |-> [status |-> "accepted"]]
  /\ nextId' = nextId + 1
  /\ UNCHANGED <<backend, papers, idx, summaries, exc, outcome>>

\* ------------------------------------------------- scrape_and_summarize
\* line 159: the worker takes the message and publishes its first state
Start(id) ==
  /\ pc[id] = "queued"
  /\ \E m \in queue : m.id = id /\ queue' = queue \ {m}
  /\ backend' = update_state(id, "PROGRESS", Progress("Starting to scrape...", 0))
  /\ pc' = [pc EXCEPT ![id] = "listing"]
  /\ UNCHANGED <<nextId, papers, idx, summaries, exc, outcome, response>>

\* lines 163-176: the listing is fetched and parsed into `papers`
ListingFetched(id, listing) ==
  /\ pc[id] = "listing"
  /\ papers' = [papers EXCEPT ![id] = FilterEntries(listing, 1)]
  /\ pc' = [pc EXCEPT ![id] = "parsed"]
  /\ UNCHANGED <<nextId, queue, backend, idx, summaries, exc, outcome, response>>

\* mutant: an empty listing is reported as a failure
ReturnEmpty_failure(id) ==
  /\ pc[id] = "parsed"
  /\ papers[id] = <<>>
  /\ backend' = update_state(id, "SUCCESS", json_dumps([status |-> "failure", error |-> 1]))
  /\ pc' = [pc EXCEPT ![id] = "done"]
  /\ UNCHANGED <<nextId, queue, papers, idx, summaries, exc, outcome, response>>

\* lines 178-179: no papers, the task returns at once
ReturnEmpty(id) ==
  /\ pc[id] = "parsed"
  /\ papers[id] = <<>>
  /\ backend' = update_state(id, "SUCCESS", json_dumps(CompletePayload(<<>>)))
  /\ pc' = [pc EXCEPT ![id] = "done"]
  /\ UNCHANGED <<nextId, queue, papers, idx, summaries, exc, outcome, response>>

\* line 181
AnnounceFound(id) ==
  /\ pc[id] = "parsed"
  /\ papers[id] # <<>>
  /\ backend' = update_state(id, "PROGRESS",
                   Progress("Found {n} papers. Starting summarization...", Len(papers[id])))
  /\ pc' = [pc EXCEPT ![id] = "loop"]
  /\ UNCHANGED <<nextId, queue, papers, idx, summaries, exc, outcome, response>>

\* the paper the for loop of line 184 is at
Current(id) == papers[id][idx[id] + 1]

\* lines 184-186: the loop takes the next paper, the k-th, and requests its
\* page; the worker then waits for the answer
FetchPage(id, k) ==
  /\ pc[id] = "loop"
  /\ k = idx[id] + 1
  /\ k <= Len(papers[id])
  /\ pc' = [pc EXCEPT ![id] = "fetching"]
  /\ UNCHANGED <<nextId, queue, backend, papers, idx, summaries, exc, outcome, response>>

\* lines 194-198
SummaryEntry(paper, doc) ==
  [title |-> paper.title, link |-> paper.link, summary |-> summary_text(doc)]

\* lines 200-204
FailedEntry(paper, e) ==
  [title |-> paper.title, link |-> paper.link, summary |-> failure_text(e)]

\* mutant: the new entry is put in front of the list
PaperSummarized_prepend(id, doc) ==
  /\ pc[id] = "fetching"
  /\ summaries' = [summaries EXCEPT ![id] = <<SummaryEntry(Current(id), doc)>> \o @]
  /\ idx' = [idx EXCEPT ![id] = @ + 1]
  /\ outcome' = [outcome EXCEPT ![id] = Append(@, [raised |-> FALSE, doc |-> doc])]
  /\ pc' = [pc EXCEPT ![id] = "loop"]
  /\ UNCHANGED <<nextId, queue, backend, papers, exc, response>>

\* lines 186-198: the page arrives, is parsed and summarized
PaperSummarized(id, doc) ==
  /\ pc[id] = "fetching"
  /\ summaries' = [summaries EXCEPT ![id] = Append(@, SummaryEntry(Current(id), doc))]
  /\ idx' = [idx EXCEPT ![id] = @ + 1]
  /\ outcome' = [outcome EXCEPT ![id] = Append(@, [raised |-> FALSE, doc |-> doc])]
  /\ pc' = [pc EXCEPT ![id] = "loop"]
  /\ UNCHANGED <<nextId, queue, backend, papers, exc, response>>

\* mutant: the exception of a page reaches the handler of line 210
PaperFailed_outer(id, e) ==
  /\ pc[id] = "fetching"
  /\ exc' = [exc EXCEPT ![id] = e]
  /\ backend' = update_state(id, "FAILURE", ErrorMeta(e))
  /\ pc' = [pc EXCEPT ![id] = "failing"]
  /\ UNCHANGED <<nextId, queue, papers, idx, summaries, outcome, response>>

\* mutant: the handler skips the paper instead of recording it
PaperFailed_drop(id, e) ==
  /\ pc[id] = "fetching"
  /\ idx' = [idx EXCEPT ![id] = @ + 1]
  /\ outcome' = [outcome EXCEPT ![id] = Append(@, [raised |-> TRUE, doc |-> <<>>])]
  /\ pc' = [pc EXCEPT ![id] = "loop"]
  /\ UNCHANGED <<nextId, queue, backend, papers, summaries, exc, response>>

\* lines 186-204: the fetch, the parse or the summarizer raises
PaperFailed(id, e) ==
  /\ pc[id] = "fetching"
  /\ summaries' = [summaries EXCEPT ![id] = Append(@, FailedEntry(Current(id), e))]
  /\ idx' = [idx EXCEPT ![id] = @ + 1]
  /\ outcome' = [outcome EXCEPT ![id] = Append(@, [raised |-> TRUE, doc |-> <<>>])]
  /\ pc' = [pc EXCEPT ![id] = "loop"]
  /\ UNCHANGED <<nextId, queue, backend, papers, exc, response>>

\* line 206
WrapUp(id) ==
  /\ pc[id] = "loop"
  /\ idx[id] = Len(papers[id])
  /\ backend' = update_state(id, "PROGRESS",
                   Progress("Summarization complete. Wrapping up...", 0))
  /\ pc' = [pc EXCEPT ![id] = "returning"]
  /\ UNCHANGED <<nextId, queue, papers, idx, summaries, exc, outcome, response>>

\* line 208: the returned string is stored as the result of a SUCCESS
ReturnComplete(id) ==
  /\ pc[id] = "returning"
  /\ backend' = update_state(id, "SUCCESS", json_dumps(CompletePayload(summaries[id])))
  /\ pc' = [pc EXCEPT ![id] = "done"]
  /\ UNCHANGED <<nextId, queue, papers, idx, summaries, exc, outcome, response>>

\* lines 163-164 raise a RequestException; lines 210-211 publish FAILURE
ListingRequestException(id, e) ==
  /\ pc[id] = "listing"
  /\ exc' = [exc EXCEPT ![id] = e]
  /\ backend' = update_state(id, "FAILURE", ErrorMeta(e))
  /\ pc' = [pc EXCEPT ![id] = "failing"]
  /\ UNCHANGED <<nextId, queue, papers, idx, summaries, outcome, response>>

\* mutant: the handler returns the payload of line 208
ReturnFailure_complete(id) ==
  /\ pc[id] = "failing"
  /\ backend' = update_state(id, "SUCCESS", json_dumps(CompletePayload(summaries[id])))
  /\ pc' = [pc EXCEPT ![id] = "done"]
  /\ UNCHANGED <<nextId, queue, papers, idx, summaries, exc, outcome, response>>

\* line 212: the task returns normally and Celery stores the returned
\* string as the result of a SUCCESS, over the FAILURE record of line 211
ReturnFailure(id) ==
  /\ pc[id] = "failing"
  /\ backend' = update_state(id, "SUCCESS", json_dumps(FailurePayload(exc[id])))
  /\ pc' = [pc EXCEPT ![id] = "done"]
  /\ UNCHANGED <<nextId, queue, papers, idx, summaries, exc, outcome, response>>

\* line 212 on a key-value backend that reads the current record before it
\* stores (Celery 4.4 and later): the record of line 211 does not decode,
\* the store raises in the worker and the record stays as line 211 left it
ReturnFailureNotStored(id) ==
  /\ pc[id] = "failing"
  /\ ~MetaDecodes(backend[id])
  /\ pc' = [pc EXCEPT ![id] = "done"]
  /\ UNCHANGED <<nextId, queue, backend, papers, idx, summaries, exc, outcome, response>>

\* lines 163-176 raise something that is not a RequestException: nothing
\* catches it and Celery records the task as failed with the exception
ListingOtherException(id, e) ==
  /\ pc[id] = "listing"
  /\ backend' = update_state(id, "FAILURE", ExcInfo(e))
  /\ pc' = [pc EXCEPT ![id] = "raised"]
  /\ UNCHANGED <<nextId, queue, papers, idx, summaries, exc, outcome, response>>

\* -------------------------------------------------------- get_task_status
\* jsonify can serialise dicts and strings, not exception objects
Jsonifiable(result) == result.kind # "exc"

\* mutant: every record that is not PENDING counts as ready
get_task_status_eager(task_id) ==
  LET task == backend[task_id] IN
  IF ~MetaDecodes(task)
  THEN [code |-> 500, body |-> [status |-> "error"]]
  ELSE IF task.state # "PENDING"
  THEN LET result == IF task.meta.kind = "str" THEN json_loads(task.meta) ELSE task.meta
       IN IF task.meta.kind # "str" /\ ~Jsonifiable(result)
          THEN [code |-> 500, body |-> [status |-> "error"]]
          ELSE [code |-> 200, body |-> [status |-> "ready", result |-> result]]
  ELSE [code |-> 202, body |-> [status |-> "pending"]]

\* lines 226-236
get_task_status(task_id) ==
  LET task == backend[task_id] IN
  IF ~MetaDecodes(task)
  THEN [code |-> 500, body |-> [status |-> "error"]]
  ELSE IF task.state \in READY_STATES
  THEN LET result == IF task.meta.kind = "str" THEN json_loads(task.meta) ELSE task.meta
       IN IF task.meta.kind # "str" /\ ~Jsonifiable(result)
          THEN [code |-> 500, body |-> [status |-> "error"]]
          ELSE [code |-> 200, body |-> [status |-> "ready", result |-> result]]
  ELSE [code |-> 202, body |-> [status |-> "pending"]]

\* mutant: a poll that has read a ready result drops the record
PollStatus_forget(task_id) ==
  /\ response' = [op |-> "status", id |-> task_id] @@ get_task_status(task_id)
  /\ backend' = IF get_task_status(task_id).code = 200
                THEN [backend EXCEPT ![task_id] = [state |-> "PENDING", meta |-> NoMeta]]
                ELSE backend
  /\ UNCHANGED <<nextId, queue, pc, papers, idx, summaries, exc, outcome>>

PollStatus(task_id) ==
  /\ response' = [op |-> "status", id |-> task_id] @@ get_task_status(task_id)
  /\ UNCHANGED <<nextId, queue, backend, pc, papers, idx, summaries, exc, outcome>>

\* ---------------------------------------------------- requests with no route
\* lines 214, 218, 226: the application routes "/", "/submit" and
\* "/status/<task_id>" and nothing else.  A request to cancel a task matches
\* no route: Flask answers 404 and no handler runs.
CancelRequest(task_id) ==
  /\ response' = [op |-> "cancel", id |-> task_id, code |-> 404,
                  body |-> [status |-> "error"]]
  /\ UNCHANGED <<nextId, queue, backend, pc, papers, idx, summaries, exc, outcome>>

\* ------------------------------------------------------------------ Next
Next ==
  \/ \E form \in Forms : SubmitRejected(form)
  \/ \E form \in Forms : SubmitAccepted(form)
  \/ \E id \in TaskIds : Start(id)
  \/ \E id \in TaskIds, listing \in Listings : ListingFetched(id, listing)
  \/ \E id \in TaskIds : ReturnEmpty(id)
  \/ \E id \in TaskIds : AnnounceFound(id)
  \/ \E id \in TaskIds, k \in 1..MaxEntries : FetchPage(id, k)
  \/ \E id \in TaskIds, doc \in PageDocs : PaperSummarized(id, doc)
  \/ \E id \in TaskIds, e \in Reasons : PaperFailed(id, e)
  \/ \E id \in TaskIds : WrapUp(id)
  \/ \E id \in TaskIds : ReturnComplete(id)
  \/ \E id \in TaskIds, e \in Reasons : ListingRequestException(id, e)
  \/ \E id \in TaskIds : ReturnFailure(id)
  \/ \E id \in TaskIds : ReturnFailureNotStored(id)
  \/ \E id \in TaskIds, e \in Reasons : ListingOtherException(id, e)
  \/ \E id \in PollIds : PollStatus(id)
  \/ \E id \in TaskIds : CancelRequest(id)

Spec == Init /\ [][Next]_vars

\* The worker process runs the steps of a started task that do not wait on
\* the network; requests.get and HtmlParser.from_url have no timeout, so
\* nothing makes a fetch return.
LocalStep(id) ==
  \/ Start(id)
  \/ ReturnEmpty(id)
  \/ AnnounceFound(id)
  \/ \E k \in 1..MaxEntries : FetchPage(id, k)
  \/ WrapUp(id)
  \/ ReturnComplete(id)
  \/ ReturnFailure(id)
  \/ ReturnFailureNotStored(id)

FairSpec == Spec /\ \A id \in TaskIds : WF_vars(LocalStep(id))

\* ------------------------------------------------- the job of the record
\* The job state a record stands for.  A task that caught the listing
\* failure returns normally, so its record ends as a SUCCESS whose payload
\* says "failure": that record is a Failed job.
JobState(id) ==
  LET rec == backend[id] IN
  CASE rec.state = "PENDING" -> "Pending"
    [] rec.state = "PROGRESS" -> "InProgress"
    [] rec.state = "FAILURE" -> "Failed"
    [] rec.state = "SUCCESS" ->
         IF json_loads(rec.meta).status = "complete" THEN "Complete" ELSE "Failed"

\* the value a record holds, whatever Celery state carries it
Held(id) ==
  LET meta == backend[id].meta IN
  IF meta.kind = "str" THEN json_loads(meta) ELSE meta

HasPapers(id) == "papers" \in DOMAIN Held(id)
HasError(id) == "error" \in DOMAIN Held(id) \/ backend[id].meta.kind = "exc"
JobPapers(id) == IF HasPapers(id) THEN Held(id).papers ELSE <<>>
JobError(id) ==
  IF "error" \in DOMAIN Held(id) THEN Held(id).error
  ELSE IF backend[id].meta.kind = "exc" THEN Held(id).exc_message ELSE 0

Submitted == 1..(nextId - 1)
Finished(id) == pc[id] = "done"
\* the listing fetch of the job succeeded
Listed(id) == pc[id] \in {"parsed", "loop", "fetching", "returning", "done"} /\ exc[id] = 0
\* the listing fetch of the job raised a RequestException
ListingFailed(id) == exc[id] # 0

\* =================================================================== C1
\* C1: a job whose listing gave N >= 1 references is never Failed, whatever
\* subset of its page steps raises, and once its worker has returned it is
\* Complete with exactly N papers, each reference appearing exactly once.
C1_NoDropNoFail ==
  \A id \in TaskIds :
    (Listed(id) /\ Len(papers[id]) >= 1) =>
      /\ JobState(id) # "Failed"
      /\ Finished(id) =>
           /\ JobState(id) = "Complete"
           /\ Len(JobPapers(id)) = Len(papers[id])
           /\ \A i \in 1..Len(papers[id]) :
                Cardinality({k \in 1..Len(JobPapers(id)) :
                               /\ JobPapers(id)[k].title = papers[id][i].title
                               /\ JobPapers(id)[k].link = papers[id][i].link}) = 1

C1_Witness ==
  \E id \in TaskIds :
    /\ Finished(id) /\ Listed(id) /\ Len(papers[id]) = 2
    /\ outcome[id][1].raised /\ outcome[id][2].raised
    /\ JobState(id) = "Complete"

\* =================================================================== C2
\* C2 as stated: in the papers of a finished job exactly the entries whose
\* page step raised read "Could not generate summary: ...", and every other
\* entry has a non-empty summary.
C2_Original ==
  \A id \in TaskIds :
    (Finished(id) /\ JobState(id) = "Complete") =>
      \A i \in 1..Len(JobPapers(id)) :
        /\ outcome[id][i].raised <=> StartsWithCouldNot(JobPapers(id)[i].summary)
        /\ ~outcome[id][i].raised => ~IsEmptyStr(JobPapers(id)[i].summary)

\* positions 1..n of a page, strictly increasing
IsSubsequenceOf(body, n) ==
  /\ \A k \in 1..Len(body) : body[k] \in 1..n
  /\ \A k \in 1..(Len(body) - 1) : body[k] < body[k + 1]

Min(a, b) == IF a < b THEN a ELSE b

\* C2 amended: each entry whose page step raised reads "Could not generate
\* summary: <reason>"; every other entry holds the join of min(3, len)
\* sentences of its page in page order, which is the empty string exactly
\* when the page has no sentence.
C2_Amended ==
  \A id \in TaskIds :
    (Finished(id) /\ JobState(id) = "Complete") =>
      /\ Len(JobPapers(id)) = Len(outcome[id])
      /\ \A i \in 1..Len(JobPapers(id)) :
           LET text == JobPapers(id)[i].summary
               met == outcome[id][i]
           IN /\ met.raised => StartsWithCouldNot(text) /\ text.body # <<>>
              /\ ~met.raised =>
                   /\ text.head = ""
                   /\ IsSubsequenceOf(text.body, Len(met.doc))
                   /\ Len(text.body) = Min(SentencesCount, Len(met.doc))
                   /\ IsEmptyStr(text) <=> Len(met.doc) = 0

C2_Witness ==
  \E id \in TaskIds :
    /\ Finished(id) /\ JobState(id) = "Complete" /\ Len(JobPapers(id)) = 2
    /\ outcome[id][1].raised
    /\ ~outcome[id][2].raised /\ outcome[id][2].doc = <<>>
    /\ IsEmptyStr(JobPapers(id)[2].summary)

\* =================================================================== C3
\* C3: once the listing fetch of a job has raised a RequestException the
\* job is Failed, and a poll of it answers with the Failed status, a
\* non-empty error and no papers field.
C3_FailedIsPolled ==
  \A id \in TaskIds :
    ListingFailed(id) =>
      /\ JobState(id) = "Failed"
      /\ LET answer == get_task_status(id) IN
           /\ answer.code = 200
           /\ answer.body.status = "ready"
           /\ answer.body.result.status = "failure"
           /\ answer.body.result.error # 0
           /\ "papers" \notin DOMAIN answer.body.result

\* =================================================================== C4
EmptyListed(id) == Listed(id) /\ papers[id] = <<>>

\* C4: a job whose listing succeeded with no reference eventually is
\* Complete with papers = [], and no page is ever fetched for it.
C4_EmptyListingCompletes ==
  \A id \in TaskIds :
    /\ [](EmptyListed(id) => pc[id] # "fetching" /\ idx[id] = 0 /\ outcome[id] = <<>>)
    /\ EmptyListed(id) ~>
         (JobState(id) = "Complete" /\ HasPapers(id) /\ JobPapers(id) = <<>>)

C4_Witness ==
  \E id \in TaskIds :
    /\ EmptyListed(id) /\ Finished(id)
    /\ backend[id] = [state |-> "SUCCESS", meta |-> json_dumps(CompletePayload(<<>>))]

\* =================================================================== C5
\* C5: the papers of a Complete job are in listing order: the i-th paper
\* carries the title and the link of the i-th reference.
C5_ListingOrder ==
  \A id \in TaskIds :
    JobState(id) = "Complete" =>
      /\ DOMAIN JobPapers(id) = DOMAIN papers[id]
      /\ \A i \in DOMAIN papers[id] :
           /\ JobPapers(id)[i].title = papers[id][i].title
           /\ JobPapers(id)[i].link = papers[id][i].link

C5_Witness ==
  \E id \in TaskIds :
    /\ JobState(id) = "Complete" /\ Len(JobPapers(id)) = 2
    /\ ~outcome[id][1].raised /\ outcome[id][2].raised
    /\ JobPapers(id)[1].title # JobPapers(id)[2].title

\* =================================================================== C6
\* C6: a poll of an id that submit returned succeeds at every point of the
\* worker's execution with a well-formed pending or ready payload.
C6_PollNeverFails ==
  \A id \in Submitted :
    /\ get_task_status(id).code \in {200, 202}
    /\ get_task_status(id).body.status \in {"pending", "ready"}

\* =================================================================== C7
\* C7: a poll of a job that is Pending or InProgress answers `pending` and
\* nothing else; a poll answers `ready` only for a Complete or Failed job,
\* and then with the result or error payload.
C7_PendingUntilTerminal ==
  [][\A id \in PollIds :
       PollStatus(id) =>
         /\ JobState(id) \in {"Pending", "InProgress"} =>
              /\ response'.code = 202
              /\ response'.body = [status |-> "pending"]
         /\ response'.body.status = "ready" =>
              /\ JobState(id) \in {"Complete", "Failed"}
              /\ response'.body.result = Held(id)
              /\ HasPapers(id) \/ HasError(id)]_vars

C7_Witness ==
  /\ response.op = "status" /\ response.id \in Submitted
  /\ response.body.status = "pending"
  /\ JobState(response.id) = "InProgress"
  /\ \E other \in Submitted : JobState(other) = "Complete"

\* =================================================================== C8
\* C8: a record holds a papers list only when its job is Complete and an
\* error only when its job is Failed.
C8_ResultOnlyWhenTerminal ==
  \A id \in PollIds :
    /\ HasPapers(id) => JobState(id) = "Complete"
    /\ HasError(id) => JobState(id) = "Failed"

C8_Witness ==
  \E a, b \in TaskIds :
    /\ HasPapers(a) /\ JobPapers(a) # <<>>
    /\ HasError(b) /\ backend[b].state = "SUCCESS"

\* =================================================================== C9
JobTransitions ==
  {<<"Pending", "InProgress">>, <<"InProgress", "InProgress">>,
   <<"InProgress", "Complete">>, <<"InProgress", "Failed">>}

\* C9: every change of a job record is one of the four transitions, and a
\* Complete or Failed job keeps its state, its papers and its error.
C9_Transitions ==
  [][\A id \in PollIds :
       /\ backend'[id] # backend[id] =>
            \/ <<JobState(id), JobState(id)'>> \in JobTransitions
            \/ JobState(id) \in {"Complete", "Failed"}
       /\ JobState(id) \in {"Complete", "Failed"} =>
            /\ JobState(id)' = JobState(id)
            /\ HasPapers(id)' = HasPapers(id)
            /\ JobPapers(id)' = JobPapers(id)
            /\ HasError(id)' = HasError(id)
            /\ JobError(id)' = JobError(id)]_vars

C9_Witness ==
  \E id \in TaskIds :
    /\ Finished(id) /\ ListingFailed(id)
    /\ backend[id].state = "SUCCESS" /\ JobState(id) = "Failed"

\* ================================================================== C10
\* C10: a poll of an id that no submit ever returned fails with a not-found
\* error and answers neither pending nor ready.
C10_UnknownIdNotFound ==
  [][\A id \in PollIds \ TaskIds :
       PollStatus(id) =>
         /\ response'.code = 404
         /\ response'.body.status \notin {"pending", "ready"}]_vars

\* ================================================================== C11
\* a topic that is missing, empty or made of whitespace only
Blank(form) == ~form.some \/ \A i \in 1..Len(form.val) : form.val[i] = " "

\* C11: a submit whose topic is missing, empty or whitespace only is
\* refused: no id is handed out, no task is queued, no record changes.
C11_BlankTopicRefused ==
  [][\A form \in Forms :
       (Blank(form) /\ (SubmitRejected(form) \/ SubmitAccepted(form))) =>
         /\ response'.code = 400
         /\ UNCHANGED <<nextId, queue, pc, backend>>]_vars

\* ================================================================== C12
\* C12: a poll of a job that is InProgress answers with the job's state and
\* the progress message the worker published last.
C12_PollShowsProgress ==
  [][\A id \in TaskIds :
       (PollStatus(id) /\ JobState(id) = "InProgress") =>
         /\ "state" \in DOMAIN response'.body
         /\ "message" \in DOMAIN response'.body
         /\ response'.body.message = backend[id].meta.message]_vars

\* ================================================================== C13
\* C13: a page fetch that never answers is given up after a bounded wait,
\* so under fair scheduling of the worker every job whose listing fetch
\* succeeded eventually is Complete.
C13_SlowPaperDoesNotStall ==
  \A id \in TaskIds : Listed(id) ~> (JobState(id) = "Complete")

\* ================================================================== C14
\* the k-th page operation of the job has not been started
NotStarted(id, k) ==
  /\ pc[id] \in {"loop", "fetching"}
  /\ k \in 1..Len(papers[id])
  /\ k > idx[id]
  /\ ~(pc[id] = "fetching" /\ k = idx[id] + 1)

\* C14: the page operations of a job do not wait for one another: whatever
\* the others have done, an operation that has not started can start.
C14_NoOrderingDependency ==
  \A id \in TaskIds : \A k \in 1..MaxEntries :
    NotStarted(id, k) => ENABLED FetchPage(id, k)

\* ================================================================== C15
\* every step the worker of a task can take
WorkerStep(id) ==
  \/ LocalStep(id)
  \/ \E listing \in Listings : ListingFetched(id, listing)
  \/ \E e \in Reasons : ListingRequestException(id, e)
  \/ \E e \in Reasons : ListingOtherException(id, e)
  \/ \E doc \in PageDocs : PaperSummarized(id, doc)
  \/ \E e \in Reasons : PaperFailed(id, e)

\* C15: a poll leaves every job record as it was, and a record changes only
\* in a step of the worker of its own task.
C15_PollReadsOnly ==
  [][/\ \A id \in PollIds : PollStatus(id) => backend' = backend
     /\ \A id \in PollIds :
          backend'[id] # backend[id] => (id \in TaskIds /\ WorkerStep(id))]_vars

C15_Witness ==
  /\ response.op = "status" /\ response.code = 200
  /\ response.id \in TaskIds
  /\ JobState(response.id) = "Complete"
  /\ response.body.result = Held(response.id)
  /\ JobPapers(response.id) # <<>>

\* ================================================================== C16
\* what the worker of a task holds
Worker(id) == <<pc[id], papers[id], idx[id], summaries[id], exc[id], outcome[id]>>

\* the entry the job's own history gives for its i-th reference
OwnEntry(id, i, entry) ==
  /\ entry.title = papers[id][i].title
  /\ entry.link = papers[id][i].link
  /\ IF outcome[id][i].raised
     THEN \E e \in Reasons : entry.summary = failure_text(e)
     ELSE entry.summary = summary_text(outcome[id][i].doc)

\* the record of a returned task, told from the task's own fetch outcomes
OwnResult(id) ==
  IF ListingFailed(id)
  THEN \/ backend[id] = [state |-> "SUCCESS", meta |-> json_dumps(FailurePayload(exc[id]))]
       \/ backend[id] = [state |-> "FAILURE", meta |-> ErrorMeta(exc[id])]
  ELSE /\ JobState(id) = "Complete"
       /\ Len(JobPapers(id)) = Len(papers[id])
       /\ Len(outcome[id]) = Len(papers[id])
       /\ \A i \in 1..Len(papers[id]) : OwnEntry(id, i, JobPapers(id)[i])

\* C16: an accepted submit returns its id while the job is still Pending,
\* a step of one job's worker changes nothing of another job, and the record
\* of a returned job is told by its own fetch outcomes alone.
C16_JobsIndependent ==
  [][/\ \A form \in Forms :
          SubmitAccepted(form) =>
            /\ backend' = backend
            /\ JobState(nextId)' = "Pending"
            /\ response'.code = 202 /\ response'.id = nextId
     /\ \A id \in TaskIds :
          (Worker(id)' # Worker(id) \/ backend'[id] # backend[id]) =>
            /\ pc[id] = "idle" \/ WorkerStep(id)
            /\ \A other \in PollIds \ {id} :
                 /\ backend'[other] = backend[other]
                 /\ other \in TaskIds => Worker(other)' = Worker(other)
     /\ \A id \in TaskIds : (~Finished(id) /\ Finished(id)') => OwnResult(id)']_vars

C16_Witness ==
  \E a, b \in TaskIds :
    /\ pc[a] = "fetching" /\ idx[a] = 0
    /\ Finished(b) /\ JobState(b) = "Complete" /\ Len(JobPapers(b)) = 2
    /\ outcome[b][1].raised /\ ~outcome[b][2].raised

\* ================================================================== C17
\* C17: a request to cancel a job that is InProgress is accepted, and from
\* then on no page is requested for the job and the job does not complete.
C17_CancelStopsJob ==
  [][\A id \in TaskIds :
       /\ (CancelRequest(id) /\ JobState(id) = "InProgress") =>
            response'.code \in {200, 202}
       /\ (response.op = "cancel" /\ response.id = id /\ JobState(id) = "InProgress") =>
            /\ \A k \in 1..MaxEntries : ~FetchPage(id, k)
            /\ JobState(id)' \in {"InProgress", "Failed"}]_vars

\* ================================================================== C18
\* the listing entries that have both the title and the Abstract link
Whole(listing) == {k \in 1..Len(listing) : listing[k].title /\ listing[k].link}

\* C18: the references the listing step leaves are exactly the entries that
\* have both a title and an Abstract link, each once and in listing order,
\* and skipping the others does not fail the job.
C18_ListingFilter ==
  [][\A id \in TaskIds : \A listing \in Listings :
       ListingFetched(id, listing) =>
         LET refs == papers'[id] IN
         /\ Len(refs) = Cardinality(Whole(listing))
         /\ \A n \in 1..Len(refs) :
              refs[n].title \in Whole(listing) /\ refs[n].link = refs[n].title
         /\ \A n \in 1..(Len(refs) - 1) : refs[n].title < refs[n + 1].title
         /\ JobState(id)' = "InProgress"]_vars

C18_Witness ==
  \E id \in TaskIds :
    /\ pc[id] = "parsed"
    /\ Len(papers[id]) = 1 /\ papers[id][1].title = 2

\* ================================================================== C19
\* The summarizer on every page up to MaxSent sentences: one task has been
\* submitted and started, its listing gave one reference, and the worker has
\* requested the page of that reference.
SumInit ==
  /\ nextId = 2
  /\ queue = {}
  /\ backend = [i \in PollIds |->
                  IF i = 1
                  THEN [state |-> "PROGRESS",
                        meta |-> Progress("Found {n} papers. Starting summarization...", 1)]
                  ELSE [state |-> "PENDING", meta |-> NoMeta]]
  /\ pc = [i \in TaskIds |-> IF i = 1 THEN "fetching" ELSE "idle"]
  /\ papers = [i \in TaskIds |-> IF i = 1 THEN <<[title |-> 1, link |-> 1]>> ELSE <<>>]
  /\ idx = [i \in TaskIds |-> 0]
  /\ summaries = [i \in TaskIds |-> <<>>]
  /\ exc = [i \in TaskIds |-> 0]
  /\ outcome = [i \in TaskIds |-> <<>>]
  /\ response = [op |-> "submit", id |-> 1, code |-> 202, body |-> [status |-> "accepted"]]

SumNext ==
  \/ \E doc \in Documents : PaperSummarized(1, doc)
  \/ WrapUp(1)
  \/ ReturnComplete(1)
  \/ PollStatus(1)

SumSpec == SumInit /\ [][SumNext]_vars

\* the positions a summary text joins
Joined(text) == {text.body[k] : k \in 1..Len(text.body)}

\* C19: the summary stored for a page of sentences S joins min(3, len(S))
\* sentences of S in page order; they are the best rated ones, equal
\* ratings going to the earlier sentence, and all of S when len(S) <= 3.
C19_TopThreeInOrder ==
  \A id \in TaskIds : \A i \in 1..Len(outcome[id]) :
    ~outcome[id][i].raised =>
      LET S == outcome[id][i].doc
          text == summaries[id][i].summary
      IN /\ text.head = ""
         /\ Len(text.body) = Min(SentencesCount, Len(S))
         /\ IsSubsequenceOf(text.body, Len(S))
         /\ \A p \in Joined(text) : \A q \in (1..Len(S)) \ Joined(text) :
              S[p] > S[q] \/ (S[p] = S[q] /\ p < q)
         /\ Len(S) <= SentencesCount => text.body = [k \in 1..Len(S) |-> k]

C19_Witness ==
  \E id \in TaskIds :
    /\ Len(outcome[id]) = 1 /\ ~outcome[id][1].raised
    /\ LET S == outcome[id][1].doc
           text == summaries[id][1].summary
       IN /\ Len(S) = MaxSent
          /\ text.body # <<1, 2, 3>>
          /\ \E p \in Joined(text) : \E q \in (1..Len(S)) \ Joined(text) :
               S[p] = S[q] /\ p < q

\* ================================================================== C20
\* C20: the value a task returns is a "complete" payload with papers and no
\* error, or a "failure" payload with an error and no papers; it is the
\* failure payload exactly when the listing request raised a request
\* exception, never once the listing has been fetched, whatever the pages
\* raise.
C20_ReturnShapes ==
  \A id \in TaskIds :
    backend[id].state = "SUCCESS" =>
      /\ backend[id].meta.kind = "str"
      /\ LET value == json_loads(backend[id].meta) IN
           /\ \/ value.status = "complete" /\ DOMAIN value = {"status", "papers"}
              \/ value.status = "failure" /\ DOMAIN value = {"status", "error"}
           /\ value.status = "failure" <=> ListingFailed(id)
           /\ value.status = "failure" =>
                papers[id] = <<>> /\ idx[id] = 0 /\ outcome[id] = <<>>
           /\ (Listed(id) \/ \E i \in 1..Len(outcome[id]) : outcome[id][i].raised) =>
                value.status = "complete"

C20_Witness ==
  \E a, b \in TaskIds :
    /\ backend[a].state = "SUCCESS" /\ json_loads(backend[a].meta).status = "failure"
    /\ backend[b].state = "SUCCESS" /\ json_loads(backend[b].meta).status = "complete"
    /\ Len(outcome[b]) = 1 /\ outcome[b][1].raised

====
